---- MODULE Spec2Model ----
(***************************************************************************)
(* A model of wordgame.py: the change-one-letter word game solved by an A* *)
(* search.  wordgame.py supplies the domain (WordState, the visited        *)
(* ledger, the heuristic, the successor function, the branching-factor     *)
(* statistic and the driver run_game); the search engine it subclasses,    *)
(* astar_fibheap.AStar, and its Fibonacci-heap priority queue are not part *)
(* of the available sources and are modelled from the specification.       *)
(*                                                                         *)
(* Letters are the numbers 1..AlphaSize in alphabet order, a word is a     *)
(* sequence of letters, a WordState is a record with the word and the      *)
(* identity of the Python object.                                          *)
(***************************************************************************)
EXTENDS Integers, Sequences, FiniteSets, TLC

\* ------------------------------------------------------------- bounds
\* number of letters of the alphabet used by the checked inputs
AlphaSize == 2
\* length of the start word, the goal word and the dictionary words
WordLen == 3
\* largest number of words in a checked dictionary
MaxDict == 8
\* ledger harness: distinct WordState objects per word, distinct nodes, calls
MaxObjects == 2
MaxLedgerNodes == 2
MaxCalls == 2
\* queue harness: insertions per run and the largest key
MaxInserts == 5
MaxKey == 2

VARIABLES
    dictionary,     \* self.dictionary: the set of words of the right size
    sw,             \* self.sw: the start word
    gw,             \* self.gw: the goal word
    heuristicType,  \* self.heuristicType: 0 or 1
    pc,             \* where the driver (or the harness calling the methods) is
    nodes,          \* the search nodes created so far, root first
    visited,        \* self.visited: word -> node
    heap,           \* the priority queue of open nodes
    current,        \* the node extracted last (0: none yet)
    found,          \* what search() returned ("none" while it runs)
    path,           \* what result_path() returned
    bf,             \* what branching_factor() returned
    ret,            \* what the method called last by a harness returned
    log             \* the ledger calls made so far by the ledger harness

vars == <<dictionary, sw, gw, heuristicType, pc, nodes, visited, heap,
          current, found, path, bf, ret, log>>

\* ------------------------------------------------------------- words
ALPHABET == 1..AlphaSize

Words == [1..WordLen -> ALPHABET]

\* Python's None, where a node is expected; nodes are numbered from 1
None == 0

WordState(word) == [word |-> word, oid |-> 0]

RECURSIVE SubsetsUpTo(_, _)
SubsetsUpTo(S, k) ==
    IF k = 0 THEN {{}}
    ELSE LET P == SubsetsUpTo(S, k - 1)
         IN  P \cup {p \cup {x} : p \in P, x \in S}

\* the dictionaries make_dictionary can return: words of the start word's size
Dictionaries == SubsetsUpTo(Words, MaxDict)

Min2(a, b) == IF a < b THEN a ELSE b

\* ------------------------------------------------------------- levenshtein
\* one pass of the inner loop: current_row grows from [i + 1] by one entry per
\* letter of s2 (i is the 0-based index of c1 in s1)
RECURSIVE LevRow(_, _, _, _)
LevRow(previous_row, c1, s2, current_row) ==
    LET j == Len(current_row) IN      \* 1-based position in s2 of the next c2
    IF j > Len(s2) THEN current_row
    ELSE LET insertions == previous_row[j + 1] + 1
             deletions == current_row[j] + 1
             substitutions == previous_row[j] + (IF c1 /= s2[j] THEN 1 ELSE 0)
         IN  LevRow(previous_row, c1, s2,
                    Append(current_row,
                           Min2(insertions, Min2(deletions, substitutions))))

RECURSIVE LevRows(_, _, _, _)
LevRows(s1, s2, i, previous_row) ==
    IF i > Len(s1) THEN previous_row
    ELSE LevRows(s1, s2, i + 1, LevRow(previous_row, s1[i], s2, <<i>>))

RECURSIVE levenshtein(_, _)
levenshtein(s1, s2) ==
    IF Len(s1) < Len(s2) THEN levenshtein(s2, s1)
    ELSE IF Len(s2) = 0 THEN Len(s1)
    ELSE LET last == LevRows(s1, s2, 1, [k \in 1..(Len(s2) + 1) |-> k - 1])
         IN  last[Len(last)]

\* ------------------------------------------------------------- WordAStar
\* mutants of is_goal: the start word in place of the goal word; the state
\* object itself compared with the goal string, which are never equal
is_goal_start(state) == state.word = sw

is_goal_object(state) == FALSE

is_goal(state) == state.word = gw

heuristic_null(state) == 0

\* mutant of heuristic_custom: the distance to the start word
heuristic_custom_start(state) == levenshtein(state.word, sw)

heuristic_custom(state) == levenshtein(state.word, gw)

heuristic(state) ==
    IF heuristicType = 0 THEN heuristic_null(state)
    ELSE IF heuristicType = 1 THEN heuristic_custom(state)
    ELSE "RuntimeError"

\* mutant of SuccessorsLoop: the dictionary is not consulted
RECURSIVE SuccessorsLoopAnyWord(_, _, _, _)
SuccessorsLoopAnyWord(word, i, alph, successors_list) ==
    IF i > Len(word) THEN successors_list
    ELSE IF alph > AlphaSize
    THEN SuccessorsLoopAnyWord(word, i + 1, 1, successors_list)
    ELSE SuccessorsLoopAnyWord(word, i, alph + 1,
             Append(successors_list, WordState([word EXCEPT ![i] = alph])))

\* the two nested loops of successors: position i, then letter alph
RECURSIVE SuccessorsLoop(_, _, _, _)
SuccessorsLoop(word, i, alph, successors_list) ==
    IF i > Len(word) THEN successors_list
    ELSE IF alph > AlphaSize THEN SuccessorsLoop(word, i + 1, 1, successors_list)
    ELSE LET w == [word EXCEPT ![i] = alph]
         IN  SuccessorsLoop(word, i, alph + 1,
                 IF w \in dictionary
                 THEN Append(successors_list, WordState(w))
                 ELSE successors_list)

successors(state) ==
    LET successors_list == SuccessorsLoop(state.word, 1, 1, <<>>)
    IN  <<successors_list, [k \in 1..Len(successors_list) |-> 1]>>

\* ------------------------------------------------------------- the ledger
\* self.visited is a Python dict keyed by the word
clear_visited(vis) == <<>>

\* mutant of visit: an entry already there is kept
visit_keep_first(vis, state, node) ==
    [w \in (DOMAIN vis) \cup {state.word} |->
        IF w \in DOMAIN vis THEN vis[w] ELSE node]

visit(vis, state, node) ==
    [w \in (DOMAIN vis) \cup {state.word} |->
        IF w = state.word THEN node ELSE vis[w]]

\* mutant of visited_state_node: the lookup uses the state object as the key,
\* which the ledger never holds
visited_state_node_by_object(vis, state) == None

visited_state_node(vis, state) ==
    IF state.word \in DOMAIN vis THEN vis[state.word] ELSE None

\* ------------------------------------------------------------- branching factor
\* mutant of NodeBfChildren: unexpanded children are walked too
RECURSIVE NodeBfAllChildren(_, _, _, _)
NodeBfAllChildren(ns, children, k, bfs) ==
    IF k > Len(children) THEN bfs
    ELSE NodeBfAllChildren(ns, children, k + 1,
             bfs \o NodeBfAllChildren(ns, ns[children[k]].children, 1,
                                      <<Len(ns[children[k]].children)>>))

RECURSIVE node_bf(_, _)
RECURSIVE NodeBfChildren(_, _, _, _)
\* the loop over node.children, extending bfs with every expanded child's list
NodeBfChildren(ns, children, k, bfs) ==
    IF k > Len(children) THEN bfs
    ELSE NodeBfChildren(ns, children, k + 1,
             IF ns[children[k]].expanded
             THEN bfs \o node_bf(ns, children[k])
             ELSE bfs)

node_bf(ns, node) ==
    NodeBfChildren(ns, ns[node].children, 1, <<Len(ns[node].children)>>)

\* mutant of branching_factor: the root is counted only when it was expanded
branching_factor_expanded_root(ns) ==
    IF ~ns[1].expanded
    THEN [error |-> "ZeroDivisionError", num |-> 0, den |-> 0]
    ELSE LET bfs == node_bf(ns, 1)
             RECURSIVE Total(_)
             Total(q) == IF q = <<>> THEN 0 ELSE q[1] + Total(Tail(q))
         IN  [error |-> "", num |-> Total(bfs), den |-> Len(bfs)]

RECURSIVE SumSeq(_)
SumSeq(s) == IF s = <<>> THEN 0 ELSE s[1] + SumSeq(Tail(s))

\* float(sum(bfs)) / len(bfs), kept as the fraction num/den
branching_factor(ns) ==
    LET bfs == node_bf(ns, 1)
    IN  IF Len(bfs) = 0
        THEN [error |-> "ZeroDivisionError", num |-> 0, den |-> 0]
        ELSE [error |-> "", num |-> SumSeq(bfs), den |-> Len(bfs)]

\* ------------------------------------------------------------- priority queue
\* A Fibonacci heap: a forest of heap-ordered trees.  ent maps every queued
\* node to its key, its insertion number, its parent in the forest (None for a
\* root) and its mark; cnt counts the insertions.  Ties in key are broken by
\* insertion order.
EmptyHeap == [ent |-> <<>>, cnt |-> 0]

is_empty(H) == DOMAIN H.ent = {}

FibLess(H, a, b) ==
    \/ H.ent[a].key < H.ent[b].key
    \/ H.ent[a].key = H.ent[b].key /\ H.ent[a].seq < H.ent[b].seq

FibRoots(H) == {n \in DOMAIN H.ent : H.ent[n].parent = None}

FibChildren(H, x) == {n \in DOMAIN H.ent : H.ent[n].parent = x}

FibDegree(H, x) == Cardinality(FibChildren(H, x))

\* the minimum pointer: the least root
find_min(H) ==
    CHOOSE r \in FibRoots(H) : \A o \in FibRoots(H) \ {r} : FibLess(H, r, o)

insert(H, node, key) ==
    [ent |-> (node :> [key |-> key, seq |-> H.cnt + 1,
                       parent |-> None, mark |-> FALSE]) @@ H.ent,
     cnt |-> H.cnt + 1]

\* make root y a child of root x
FibLink(H, y, x) ==
    [H EXCEPT !.ent[y].parent = x, !.ent[y].mark = FALSE]

\* mutant of FibConsolidate: the root with the smaller key goes under the other
RECURSIVE FibConsolidateUpsideDown(_)
FibConsolidateUpsideDown(H) ==
    LET same == {p \in FibRoots(H) \X FibRoots(H) :
                    /\ p[1] /= p[2]
                    /\ FibDegree(H, p[1]) = FibDegree(H, p[2])
                    /\ FibLess(H, p[1], p[2])}
    IN  IF same = {} THEN H
        ELSE LET p == CHOOSE q \in same : TRUE
             IN  FibConsolidateUpsideDown(FibLink(H, p[1], p[2]))

\* merge roots of equal degree until all root degrees differ
RECURSIVE FibConsolidate(_)
FibConsolidate(H) ==
    LET same == {p \in FibRoots(H) \X FibRoots(H) :
                    /\ p[1] /= p[2]
                    /\ FibDegree(H, p[1]) = FibDegree(H, p[2])
                    /\ FibLess(H, p[1], p[2])}
    IN  IF same = {} THEN H
        ELSE LET p == CHOOSE q \in same : TRUE
             IN  FibConsolidate(FibLink(H, p[2], p[1]))

\* <<the node removed, the heap left>>
extract_min(H) ==
    IF is_empty(H) THEN <<"EmptyQueueError", H>>
    ELSE LET z == find_min(H)
             rest == [n \in (DOMAIN H.ent) \ {z} |->
                         IF H.ent[n].parent = z
                         THEN [H.ent[n] EXCEPT !.parent = None, !.mark = FALSE]
                         ELSE H.ent[n]]
         IN  <<z, FibConsolidate([H EXCEPT !.ent = rest])>>

FibCut(H, x) == [H EXCEPT !.ent[x].parent = None, !.ent[x].mark = FALSE]

RECURSIVE FibCascadingCut(_, _)
FibCascadingCut(H, y) ==
    LET z == H.ent[y].parent
    IN  IF z = None THEN H
        ELSE IF ~H.ent[y].mark THEN [H EXCEPT !.ent[y].mark = TRUE]
        ELSE FibCascadingCut(FibCut(H, y), z)

\* <<"" or the error raised, the heap afterwards>>
decrease_key(H, node, new_key) ==
    IF new_key > H.ent[node].key THEN <<"InvalidKeyError", H>>
    ELSE LET H1 == [H EXCEPT !.ent[node].key = new_key]
             y == H.ent[node].parent
         IN  IF y /= None /\ FibLess(H1, node, y)
             THEN <<"", FibCascadingCut(FibCut(H1, node), y)>>
             ELSE <<"", H1>>

\* ------------------------------------------------------------- search engine
\* astar_fibheap.AStar, from its specification: the root is created at
\* construction; search() seeds the ledger and the queue with it and then
\* repeatedly extracts the node of least f = g + h, stops when it is the goal
\* and expands it otherwise.  A successor not in the ledger becomes a new
\* child node; one in the ledger with a larger g gets the new g and parent and
\* a smaller key (or is inserted again when it is no longer queued); any other
\* is ignored.  With the unit step costs of successors() and the words of the
\* checked sizes the second case does not arise.
NewNode(state, g, parent) ==
    [state |-> state, g |-> g, h |-> heuristic(state), parent |-> parent,
     children |-> <<>>, expanded |-> FALSE]

\* one generated successor s with step cost c of the node n being expanded;
\* st holds the nodes, the ledger and the queue
ExpandOne(st, n, s, c) ==
    LET g2 == st.nodes[n].g + c
        v == visited_state_node(st.visited, s)
    IN  IF v = None
        THEN LET id == Len(st.nodes) + 1
                 child == NewNode(s, g2, n)
             IN  [nodes |-> Append([st.nodes EXCEPT ![n].children = Append(@, id)],
                                   child),
                  visited |-> visit(st.visited, s, id),
                  heap |-> insert(st.heap, id, g2 + child.h)]
        ELSE IF g2 < st.nodes[v].g
        THEN [nodes |-> [st.nodes EXCEPT ![v].g = g2, ![v].parent = n],
              visited |-> st.visited,
              heap |-> IF v \in DOMAIN st.heap.ent
                       THEN decrease_key(st.heap, v, g2 + st.nodes[v].h)[2]
                       ELSE insert(st.heap, v, g2 + st.nodes[v].h)]
        ELSE st

RECURSIVE ExpandLoop(_, _, _, _)
ExpandLoop(st, n, succ, k) ==
    IF k > Len(succ[1]) THEN st
    ELSE ExpandLoop(ExpandOne(st, n, succ[1][k], succ[2][k]), n, succ, k + 1)

\* expansion of node n: every successor handled, then n flagged expanded
Expand(st, n) ==
    LET st1 == ExpandLoop(st, n, successors(st.nodes[n].state), 1)
    IN  [st1 EXCEPT !.nodes[n].expanded = TRUE]

\* the states from the root to node n along the parent links
RECURSIVE PathTo(_, _)
PathTo(ns, n) ==
    IF n = None THEN <<>> ELSE Append(PathTo(ns, ns[n].parent), ns[n].state)

result_path(ns, goalNode) == PathTo(ns, goalNode)

num_nodes(vis) == Cardinality(DOMAIN vis)

NoCall == [op |-> "none"]

NoBf == [error |-> "not called", num |-> 0, den |-> 0]

\* ------------------------------------------------------------- run_game
\* WordAStar(startWord, goalWord, heuristic) after __init__: the words have the
\* same length (__init__ raises otherwise), the dictionary holds words of that
\* length, the ledger is empty and the root node wraps the start state
Init ==
    /\ dictionary \in Dictionaries
    /\ sw \in Words
    /\ gw \in Words
    /\ heuristicType \in {0, 1}
    /\ pc = "constructed"
    /\ nodes = <<NewNode(WordState(sw), 0, None)>>
    /\ visited = <<>>
    /\ heap = EmptyHeap
    /\ current = None
    /\ found = "none"
    /\ path = <<>>
    /\ bf = NoBf
    /\ ret = NoCall
    /\ log = <<>>

\* search() starts: the root enters the ledger and the queue
SearchBegin ==
    /\ pc = "constructed"
    /\ pc' = "searching"
    /\ visited' = visit(clear_visited(visited), nodes[1].state, 1)
    /\ heap' = insert(EmptyHeap, 1, nodes[1].g + nodes[1].h)
    /\ UNCHANGED <<dictionary, sw, gw, heuristicType, nodes, current, found,
                   path, bf, ret, log>>

\* one turn of the loop: extract the minimum; stop at the goal, else expand
SearchStep ==
    /\ pc = "searching"
    /\ ~is_empty(heap)
    /\ LET ex == extract_min(heap)
           n == ex[1]
       IN  /\ current' = n
           /\ IF is_goal(nodes[n].state)
              THEN /\ found' = "true"
                   /\ pc' = "returned"
                   /\ heap' = ex[2]
                   /\ UNCHANGED <<nodes, visited>>
              ELSE LET st == Expand([nodes |-> nodes, visited |-> visited,
                                     heap |-> ex[2]], n)
                   IN  /\ nodes' = st.nodes
                       /\ visited' = st.visited
                       /\ heap' = st.heap
                       /\ UNCHANGED <<found, pc>>
    /\ UNCHANGED <<dictionary, sw, gw, heuristicType, path, bf, ret, log>>

\* the queue is empty and the goal was never extracted: search() returns False
SearchFail ==
    /\ pc = "searching"
    /\ is_empty(heap)
    /\ found' = "false"
    /\ pc' = "returned"
    /\ UNCHANGED <<dictionary, sw, gw, heuristicType, nodes, visited, heap,
                   current, path, bf, ret, log>>

\* run_game after a successful search: the statistics and the path
ReportSuccess ==
    /\ pc = "returned"
    /\ found = "true"
    /\ bf' = branching_factor(nodes)
    /\ path' = result_path(nodes, current)
    /\ pc' = "done"
    /\ UNCHANGED <<dictionary, sw, gw, heuristicType, nodes, visited, heap,
                   current, found, ret, log>>

\* run_game after a failed search: only the message
ReportFailure ==
    /\ pc = "returned"
    /\ found = "false"
    /\ pc' = "done"
    /\ UNCHANGED <<dictionary, sw, gw, heuristicType, nodes, visited, heap,
                   current, found, path, bf, ret, log>>

Next ==
    \/ SearchBegin
    \/ SearchStep
    \/ SearchFail
    \/ ReportSuccess
    \/ ReportFailure

Spec == Init /\ [][Next]_vars

\* ------------------------------------------------------------- method harness
\* successors() and heuristic() called directly on the start state of a
\* constructed WordAStar object
FnSuccessors ==
    /\ pc \in {"constructed", "called"}
    /\ pc' = "called"
    /\ ret' = [op |-> "successors", state |-> nodes[1].state,
               out |-> successors(nodes[1].state)]
    /\ UNCHANGED <<dictionary, sw, gw, heuristicType, nodes, visited, heap,
                   current, found, path, bf, log>>

FnHeuristic ==
    /\ pc \in {"constructed", "called"}
    /\ pc' = "called"
    /\ ret' = [op |-> "heuristic", state |-> nodes[1].state,
               out |-> heuristic(nodes[1].state)]
    /\ UNCHANGED <<dictionary, sw, gw, heuristicType, nodes, visited, heap,
                   current, found, path, bf, log>>

NextFn == FnSuccessors \/ FnHeuristic

SpecFn == Init /\ [][NextFn]_vars

\* ------------------------------------------------------------- ledger harness
\* visit, visited_state_node and clear_visited called in any order on one object
FirstWord == [i \in 1..WordLen |-> 1]

\* the harness uses two words: FirstWord and the word with the second letter
\* of the alphabet in its first position
LedgerWords == {FirstWord, [FirstWord EXCEPT ![1] = 2]}

StateObjects ==
    {[word |-> w, oid |-> o] : w \in LedgerWords, o \in 1..MaxObjects}

InitLedger ==
    /\ dictionary = {}
    /\ sw = FirstWord
    /\ gw = FirstWord
    /\ heuristicType = 0
    /\ pc = "ledger"
    /\ nodes = <<NewNode(WordState(sw), 0, None)>>
    /\ visited = <<>>
    /\ heap = EmptyHeap
    /\ current = None
    /\ found = "none"
    /\ path = <<>>
    /\ bf = NoBf
    /\ ret = NoCall
    /\ log = <<>>

LedgerVisit(state, node) ==
    /\ pc = "ledger"
    /\ Len(log) < MaxCalls
    /\ visited' = visit(visited, state, node)
    /\ log' = Append(log, <<"visit", state, node>>)
    /\ ret' = [op |-> "visit"]
    /\ UNCHANGED <<dictionary, sw, gw, heuristicType, pc, nodes, heap,
                   current, found, path, bf>>

LedgerLookup(state) ==
    /\ pc = "ledger"
    /\ ret' = [op |-> "visited_state_node", state |-> state,
               out |-> visited_state_node(visited, state)]
    /\ UNCHANGED <<dictionary, sw, gw, heuristicType, pc, nodes, visited,
                   heap, current, found, path, bf, log>>

LedgerClear ==
    /\ pc = "ledger"
    /\ Len(log) < MaxCalls
    /\ visited' = clear_visited(visited)
    /\ log' = Append(log, <<"clear">>)
    /\ ret' = [op |-> "clear_visited"]
    /\ UNCHANGED <<dictionary, sw, gw, heuristicType, pc, nodes, heap,
                   current, found, path, bf>>

NextLedger ==
    \/ \E state \in StateObjects, node \in 1..MaxLedgerNodes :
          LedgerVisit(state, node)
    \/ \E state \in StateObjects : LedgerLookup(state)
    \/ LedgerClear

SpecLedger == InitLedger /\ [][NextLedger]_vars

\* ------------------------------------------------------------- queue harness
\* insert, extract_min and decrease_key called in any order on one queue
InitPQ ==
    /\ dictionary = {}
    /\ sw = FirstWord
    /\ gw = FirstWord
    /\ heuristicType = 0
    /\ pc = "pq"
    /\ nodes = <<NewNode(WordState(sw), 0, None)>>
    /\ visited = <<>>
    /\ heap = EmptyHeap
    /\ current = None
    /\ found = "none"
    /\ path = <<>>
    /\ bf = NoBf
    /\ ret = NoCall
    /\ log = <<>>

PQInsert(key) ==
    /\ pc = "pq"
    /\ heap.cnt < MaxInserts
    /\ heap' = insert(heap, heap.cnt + 1, key)
    /\ ret' = [op |-> "insert", error |-> ""]
    /\ UNCHANGED <<dictionary, sw, gw, heuristicType, pc, nodes, visited,
                   current, found, path, bf, log>>

PQExtractMin ==
    /\ pc = "pq"
    /\ LET ex == extract_min(heap)
       IN  /\ heap' = ex[2]
           /\ ret' = IF is_empty(heap)
                     THEN [op |-> "extract_min", error |-> ex[1]]
                     ELSE [op |-> "extract_min", error |-> "", out |-> ex[1],
                           key |-> heap.ent[ex[1]].key]
    /\ UNCHANGED <<dictionary, sw, gw, heuristicType, pc, nodes, visited,
                   current, found, path, bf, log>>

PQDecreaseKey(node, new_key) ==
    /\ pc = "pq"
    /\ node \in DOMAIN heap.ent
    /\ LET dk == decrease_key(heap, node, new_key)
       IN  /\ heap' = dk[2]
           /\ ret' = [op |-> "decrease_key", error |-> dk[1]]
    /\ UNCHANGED <<dictionary, sw, gw, heuristicType, pc, nodes, visited,
                   current, found, path, bf, log>>

NextPQ ==
    \/ \E key \in 0..MaxKey : PQInsert(key)
    \/ PQExtractMin
    \/ \E node \in 1..MaxInserts, new_key \in 0..MaxKey :
          PQDecreaseKey(node, new_key)

\* the queue on its own, and the queue as the search drives it
InitHeap == InitPQ \/ Init

NextHeap == NextPQ \/ Next

SpecHeap == InitHeap /\ [][NextHeap]_vars

\* run_game runs on one thread and never waits: every step that can be taken
\* is taken.  The fairness of SearchStep is WF_vars(SearchStep) with
\* ENABLED <<SearchStep>>_vars written out as the guard of the loop.
SearchStepEnabled == pc = "searching" /\ ~is_empty(heap)

SpecLive ==
    /\ Init
    /\ [][Next]_vars
    /\ WF_vars(SearchBegin)
    /\ ([]<>~SearchStepEnabled \/ []<><<SearchStep>>_vars)
    /\ WF_vars(SearchFail)
    /\ WF_vars(ReportSuccess)
    /\ WF_vars(ReportFailure)

\* ============================================================= properties
\* reference notions the claims are stated with

\* the number of positions in which two words of equal length differ
Hamming(a, b) == Cardinality({i \in 1..Len(a) : a[i] /= b[i]})

\* the Levenshtein distance by its defining recursion
RECURSIVE LevRef(_, _)
LevRef(a, b) ==
    IF a = <<>> THEN Len(b)
    ELSE IF b = <<>> THEN Len(a)
    ELSE Min2(LevRef(Tail(a), b) + 1,
              Min2(LevRef(a, Tail(b)) + 1,
                   LevRef(Tail(a), Tail(b)) + (IF a[1] /= b[1] THEN 1 ELSE 0)))

\* the words successors() lists for a word
SuccWords(w) ==
    LET out == successors(WordState(w))
    IN  {out[1][k].word : k \in 1..Len(out[1])}

\* breadth-first distance along successors() edges; -1 when there is no path
RECURSIVE DistFrom(_, _, _, _)
DistFrom(frontier, seen, t, d) ==
    IF t \in frontier THEN d
    ELSE LET nxt == (UNION {SuccWords(w) : w \in frontier}) \ (seen \cup frontier)
         IN  IF nxt = {} THEN 0 - 1
             ELSE DistFrom(nxt, seen \cup frontier, t, d + 1)

Dist(s, t) == DistFrom({s}, {}, t, 0)

Reachable(s, t) == Dist(s, t) >= 0

Succeeded == pc = "done" /\ found = "true"

ExpandedNodes == {i \in 1..Len(nodes) : nodes[i].expanded}

RECURSIVE SumChildren(_)
SumChildren(S) ==
    IF S = {} THEN 0
    ELSE LET i == CHOOSE x \in S : TRUE
         IN  Len(nodes[i].children) + SumChildren(S \ {i})

\* C1: whenever search() returns true, the number of steps of result_path()
\* equals the shortest-path distance from the start word to the goal word in
\* the graph whose edges successors() gives, in both heuristic modes.
C1_OptimalCost == Succeeded => Len(path) - 1 = Dist(sw, gw)

C1_Witness ==
    /\ Succeeded
    /\ heuristicType = 1
    /\ Len(path) = 4
    /\ Cardinality(dictionary) >= 6

\* C2: search() terminates, and it returns true exactly when the goal word is
\* reachable from the start word along successors() edges; an unreachable goal
\* gives false once the queue is empty.
C2_TerminatesAndDecides ==
    /\ <>(pc = "done")
    /\ [](pc \in {"returned", "done"} =>
            /\ found \in {"true", "false"}
            /\ (found = "true") <=> Reachable(sw, gw)
            /\ found = "false" => is_empty(heap))

C2_Witness ==
    /\ pc = "done"
    /\ found = "false"
    /\ ~Reachable(sw, gw)
    /\ Len(nodes) >= 3
    /\ is_empty(heap)

\* C3: after a successful search result_path() starts at the start word, ends
\* at the goal word, every two consecutive words differ in exactly one letter
\* position and every word after the first is a dictionary word.
C3_PathIsWordLadder ==
    Succeeded =>
        /\ Len(path) >= 1
        /\ path[1].word = sw
        /\ path[Len(path)].word = gw
        /\ \A k \in 1..(Len(path) - 1) :
              /\ Hamming(path[k].word, path[k + 1].word) = 1
              /\ path[k + 1].word \in dictionary

C3_Witness ==
    /\ Succeeded
    /\ Len(path) >= 3
    /\ sw \in dictionary
    /\ sw /= gw

\* C4: successors(state) lists exactly the dictionary words that differ from
\* the state's word in one letter (so never the state's own word), each with
\* cost 1, the two lists are equally long, and both are empty when there is no
\* such word.
C4_SuccessorsExact ==
    ret.op = "successors" =>
        /\ Len(ret.out[1]) = Len(ret.out[2])
        /\ \A k \in 1..Len(ret.out[2]) : ret.out[2][k] = 1
        /\ {ret.out[1][k].word : k \in 1..Len(ret.out[1])}
             = {w \in dictionary : Hamming(w, ret.state.word) = 1}

\* C5: heuristic(state) is non-negative, 0 at the goal word, satisfies
\* h(s) <= c + h(s') along every successors() edge, never exceeds the true
\* number of steps to the goal, is 0 everywhere in mode 0 and is the
\* Levenshtein distance to the goal word in mode 1.
C5_HeuristicAdmissibleConsistent ==
    ret.op = "heuristic" =>
        LET s == ret.state
            out == successors(s)
        IN  /\ ret.out >= 0
            /\ is_goal(s) => ret.out = 0
            /\ \A k \in 1..Len(out[1]) : ret.out <= out[2][k] + heuristic(out[1][k])
            /\ Reachable(s.word, gw) => ret.out <= Dist(s.word, gw)
            /\ heuristicType = 0 => ret.out = 0
            /\ heuristicType = 1 => ret.out = LevRef(s.word, gw)

C5_Witness ==
    /\ ret.op = "heuristic"
    /\ heuristicType = 1
    /\ ret.out = 2
    /\ Hamming(ret.state.word, gw) = 3
    /\ Reachable(ret.state.word, gw)

\* C6 as stated: after a successful search branching_factor() is the mean of
\* the child counts over exactly the nodes whose expanded flag is true.
C6_MeanOverExpandedOnly ==
    Succeeded =>
        /\ bf.error = ""
        /\ bf.den = Cardinality(ExpandedNodes)
        /\ bf.num = SumChildren(ExpandedNodes)

\* C6: after a successful search branching_factor() is the mean of the child
\* counts over the root and every expanded node, each counted once; the root
\* is counted even when it was extracted as the goal and never expanded.  When
\* every expanded node has exactly k children the result is exactly k.
C6_MeanOverRootAndExpanded ==
    Succeeded =>
        LET counted == ExpandedNodes \cup {1}
            k == Len(nodes[1].children)
        IN  /\ bf.error = ""
            /\ bf.den = Cardinality(counted)
            /\ bf.num = SumChildren(counted)
            /\ (\A i \in counted : Len(nodes[i].children) = k)
                  => bf.num = k * bf.den

C6_Witness ==
    /\ Succeeded
    /\ Cardinality(ExpandedNodes) >= 2
    /\ \E i \in 1..Len(nodes) :
          /\ ~nodes[i].expanded
          /\ ~is_goal(nodes[i].state)
    /\ bf.num > bf.den

\* C7 as stated: branching_factor() fails when no node was ever expanded.
C7_FailsWithoutExpansion ==
    (Succeeded /\ ExpandedNodes = {}) => bf.error /= ""

\* C7: when no node was ever expanded (the start word is the goal word)
\* branching_factor() does not fail: it returns 0, the child count of the
\* root averaged over the single root.
C7_ZeroWithoutExpansion ==
    (Succeeded /\ ExpandedNodes = {}) =>
        /\ bf.error = ""
        /\ bf.num = 0
        /\ bf.den = 1

C7_Witness ==
    /\ Succeeded
    /\ ExpandedNodes = {}
    /\ sw = gw
    /\ bf.error /= "not called"

\* C8: the key of the node extract_min returns is at most every key left in
\* the queue, after any sequence of insert, extract_min and decrease_key; and
\* the search always extracts a node of least f = g + h among the open nodes.
C8_ExtractedIsMinimum ==
    /\ []((ret.op = "extract_min" /\ ret.error = "") =>
            \A n \in DOMAIN heap.ent : ret.key <= heap.ent[n].key)
    /\ [][(pc = "searching" /\ ~is_empty(heap)) =>
            \A n \in DOMAIN heap.ent :
                nodes[current'].g + nodes[current'].h <= nodes[n].g + nodes[n].h]_vars

C8_Witness ==
    /\ ret.op = "extract_min"
    /\ ret.error = ""
    /\ heap.cnt = MaxInserts
    /\ \E n \in DOMAIN heap.ent : heap.ent[n].parent /= None
    /\ \E n \in DOMAIN heap.ent : heap.ent[n].key = ret.key
    /\ \E n \in DOMAIN heap.ent : heap.ent[n].key > ret.key

\* the node of the latest visit of a word since the latest clear_visited
RECURSIVE LastVisit(_, _)
LastVisit(l, w) ==
    IF l = <<>> THEN None
    ELSE LET e == l[Len(l)]
         IN  IF e[1] = "clear" THEN None
             ELSE IF e[2].word = w THEN e[3]
             ELSE LastVisit(SubSeq(l, 1, Len(l) - 1), w)

\* C9: visited_state_node(state) returns the node of the most recent visit()
\* of a state with the same word since the last clear_visited(), or None; a
\* later visit() overwrites an earlier one, and WordState objects with the same
\* word are the same state.
C9_LedgerLatestVisit ==
    /\ \A w \in LedgerWords :
          /\ w \in DOMAIN visited <=> LastVisit(log, w) /= None
          /\ w \in DOMAIN visited => visited[w] = LastVisit(log, w)
    /\ ret.op = "visited_state_node" =>
          /\ ret.out \in {None} \cup 1..MaxLedgerNodes
          /\ ret.out = LastVisit(log, ret.state.word)

C9_Witness ==
    /\ ret.op = "visited_state_node"
    /\ Len(log) >= 2
    /\ LET a == log[Len(log) - 1]
           b == log[Len(log)]
       IN  /\ a[1] = "visit"
           /\ b[1] = "visit"
           /\ a[2].word = b[2].word
           /\ a[3] /= b[3]
           /\ ret.state.word = b[2].word
           /\ ret.state.oid /= b[2].oid
           /\ ret.out = b[3]

\* C10: when an expansion generates a successor whose word is already in the
\* ledger with a recorded g not larger than g(current) + step cost, the ledger
\* entry, its g and its parent stay as they are and the state is not inserted
\* into the queue again; the expanded state's own word is such a successor.
C10_RevisitIgnored ==
    [][(pc = "searching" /\ ~is_empty(heap) /\ found' = "none") =>
          LET n == current'
              out == successors(nodes[n].state)
          IN  /\ heap'.cnt - heap.cnt = Len(nodes') - Len(nodes)
              /\ \A k \in 1..Len(out[1]) :
                    LET w == out[1][k].word
                        v == visited[w]
                    IN  (w \in DOMAIN visited
                           /\ nodes[v].g <= nodes[n].g + out[2][k]) =>
                          /\ visited'[w] = v
                          /\ nodes'[v].g = nodes[v].g
                          /\ nodes'[v].parent = nodes[v].parent
                          /\ v \in DOMAIN heap'.ent =>
                                /\ v \in DOMAIN heap.ent
                                /\ heap'.ent[v].seq = heap.ent[v].seq
                                /\ heap'.ent[v].key = heap.ent[v].key]_vars

C10_Witness ==
    /\ pc = "searching"
    /\ current /= None
    /\ nodes[current].expanded
    /\ nodes[current].state.word \in SuccWords(nodes[current].state.word)
    /\ \E w \in SuccWords(nodes[current].state.word) :
          /\ w /= nodes[current].state.word
          /\ visited[w] < current
    /\ Len(nodes[current].children) >= 1

====
